---- MODULE Spec2Model ----
(***************************************************************************)
(* A model of src/A*.cpp: the grid path search a_star with its helpers     *)
(* get_neighbors, heuristic and reconstruct_path.                          *)
(*                                                                         *)
(* Coordinates are <<x, y>> pairs, 0-based as in the code (x is the row).  *)
(* A grid is a sequence of rows; grid[x + 1][y + 1] is the code's          *)
(* grid[x][y].                                                             *)
(*                                                                         *)
(* Nodes live on the heap.  heap is the sequence of all Node objects       *)
(* allocated so far, in allocation order; a Node* is an index into heap    *)
(* and 0 is nullptr.  The open set is                                      *)
(*   priority_queue<Node *, vector<Node *>, greater<Node *>>               *)
(* and greater<Node *> compares the POINTERS, so top() is the node at the  *)
(* lowest address (Node::operator> is never used).  The addresses are      *)
(* whatever the allocator hands out.  No node is freed while the search    *)
(* runs, so the addresses of the nodes in the open set are distinct, and   *)
(* only their relative order is ever observed: openSet is kept as the      *)
(* sequence of the queued nodes in ascending address order, and a push     *)
(* inserts the new node at a nondeterministically chosen position (the     *)
(* place of its address among the addresses of the queued nodes).          *)
(***************************************************************************)
EXTENDS Integers, Sequences, FiniteSets, TLC

\* Bounds of the checked inputs: grids of at most MaxRows x MaxCols cells,
\* with at most MaxCells cells in all.
MaxRows == 2
MaxCols == 3
MaxCells == 6

\* Bound of the grids get_neighbors is checked on by itself: at most
\* MaxSide x MaxSide cells.
MaxSide == 3

VARIABLES
    grid,       \* the grid argument (never modified)
    start,      \* the start argument
    goal,       \* the goal argument
    pc,         \* position in a_star: "start", "loop", "neighbors", "done"
    heap,       \* every Node allocated so far; a Node* is an index, 0 is nullptr
    openSet,    \* the queued Node*s, in ascending address order
    allNodes,   \* the registry: a set of [key, val] entries, keys unique by coordinate
    current,    \* the Node* popped last
    neighbors,  \* the Node*s returned by get_neighbors and not yet looked at
    path,       \* the returned vector (meaningful when pc = "done")
    deleted,    \* the Node*s passed to delete, in order
    popped,     \* history: the coordinates popped from the open set, in order
    tentative,  \* history: the lowest tentative_g computed so far, by coordinate
    cellsRead   \* history: the positions whose grid value line 65 has read

vars == <<grid, start, goal, pc, heap, openSet, allNodes, current, neighbors,
          path, deleted, popped, tentative, cellsRead>>

----------------------------------------------------------------------------
(* Helpers on sequences and sets *)

Range(s) == {s[i] : i \in DOMAIN s}

Reverse(s) == [i \in 1..Len(s) |-> s[Len(s) + 1 - i]]

InsertAt(s, pos, e) == SubSeq(s, 1, pos - 1) \o <<e>> \o SubSeq(s, pos, Len(s))

RECURSIVE SetToSeq(_)
SetToSeq(S) ==
    IF S = {} THEN <<>>
    ELSE LET e == CHOOSE e \in S : TRUE IN <<e>> \o SetToSeq(S \ {e})

Abs(i) == IF i < 0 THEN -i ELSE i

----------------------------------------------------------------------------
(* struct Node and its helpers *)

\* Node(x, y, g = 0.0, h = 0.0, parent = nullptr), f(g + h)
Node(x, y) == [x |-> x, y |-> y, g |-> 0, h |-> 0, f |-> 0, parent |-> 0]

\* NodeEqual: two Node*s are equal keys when their coordinates agree
NodeEqual(a, b) == a.x = b.x /\ a.y = b.y

\* heuristic with the column term left out
heuristicRowsOnly(a, b) == Abs(a.x - b.x)

\* heuristic: Manhattan distance
heuristic(a, b) == Abs(a.x - b.x) + Abs(a.y - b.y)

\* directions with {1, 1} written for {0, 1}: a diagonal step
directionsDiagonal == << <<-1, 0>>, <<1, 0>>, <<0, -1>>, <<1, 1>> >>

\* directions with left and right exchanged
directionsRightFirst == << <<-1, 0>>, <<1, 0>>, <<0, 1>>, <<0, -1>> >>

\* the directions vector: up, down, left, right
directions == << <<-1, 0>>, <<1, 0>>, <<0, -1>>, <<0, 1>> >>

\* the test of line 65 with the column bound off by one
WalkableOffByOne(g, newX, newY) ==
    /\ newX >= 0 /\ newX < Len(g)
    /\ newY >= 0 /\ newY < Len(g[1]) - 1
    /\ g[newX + 1][newY + 1] = 0

\* the test of line 65 without the test of the cell's value
WalkableAnyValue(g, newX, newY) ==
    /\ newX >= 0 /\ newX < Len(g)
    /\ newY >= 0 /\ newY < Len(g[1])

\* the test of line 65 on a candidate position
Walkable(g, newX, newY) ==
    /\ newX >= 0 /\ newX < Len(g)
    /\ newY >= 0 /\ newY < Len(g[1])
    /\ g[newX + 1][newY + 1] = 0

\* the positions whose value the test of line 65 reads for node: && goes on
\* to grid[newX][newY] only when the four comparisons before it hold
ReadAround(node, g) ==
    {c \in {<<node.x + d[1], node.y + d[2]>> : d \in Range(directions)} :
        c[1] >= 0 /\ c[1] < Len(g) /\ c[2] >= 0 /\ c[2] < Len(g[1])}

\* get_neighbors: the fresh Nodes, in direction order
RECURSIVE NeighborsFrom(_, _, _)
NeighborsFrom(node, g, i) ==
    IF i > Len(directions) THEN <<>>
    ELSE LET newX == node.x + directions[i][1]
             newY == node.y + directions[i][2]
         IN  (IF Walkable(g, newX, newY) THEN <<Node(newX, newY)>> ELSE <<>>)
             \o NeighborsFrom(node, g, i + 1)

\* get_neighbors testing the cell of node itself first
get_neighbors_TestingNode(node, g) ==
    IF Walkable(g, node.x, node.y) THEN NeighborsFrom(node, g, 1) ELSE <<>>

get_neighbors(node, g) == NeighborsFrom(node, g, 1)

\* reconstruct_path: walk the parent pointers, then reverse
RECURSIVE WalkParents(_, _)
WalkParents(h, node) ==
    IF node = 0 THEN <<>>
    ELSE << <<h[node].x, h[node].y>> >> \o WalkParents(h, h[node].parent)

\* reconstruct_path without the reverse of line 89
reconstruct_path_NoReverse(h, node) == WalkParents(h, node)

reconstruct_path(h, node) == Reverse(WalkParents(h, node))

----------------------------------------------------------------------------
(* a_star, as steps on a record of its local state *)

\* allNodes.find(n) != allNodes.end()
Found(h, reg, n) == \E e \in reg : NodeEqual(h[e.key], h[n])

\* allNodes[n] = n: the mapped value of an equal key is overwritten, else a
\* new entry is made
RegistryPut(h, reg, n) ==
    IF Found(h, reg, n)
    THEN {IF NodeEqual(h[e.key], h[n]) THEN [key |-> e.key, val |-> n] ELSE e : e \in reg}
    ELSE reg \cup {[key |-> n, val |-> n]}

\* the goal check with goalNode->x compared twice
IsGoalTypo(cur, goalNode) == cur.x = goalNode.x /\ cur.y = goalNode.x

\* the goal check of line 115
IsGoal(cur, goalNode) == cur.x = goalNode.x /\ cur.y = goalNode.y

\* the insertion test with the comparison turned round
BetterFlipped(h, reg, nb, tentative_g) == ~Found(h, reg, nb) \/ tentative_g > h[nb].g

\* the insertion test of line 132; nb is the fresh neighbor Node*
Better(h, reg, nb, tentative_g) == ~Found(h, reg, nb) \/ tentative_g < h[nb].g

\* the cleanup loops of lines 118-121 and 146-149: delete pair.first
Cleanup(reg) == SetToSeq({e.key : e \in reg})

\* lines 97-106
a_star_begin(st, go) ==
    [pc |-> "loop",
     heap |-> <<Node(st[1], st[2]), Node(go[1], go[2])>>,
     openSet |-> <<1>>,
     allNodes |-> {[key |-> 1, val |-> 1]},
     current |-> 0, neighbors |-> <<>>, path |-> <<>>, deleted |-> <<>>,
     popped |-> <<>>, tentative |-> [c \in {} |-> 0], cellsRead |-> {}]

\* openSet.pop() of line 112: what is left in the queue
PopTop(q) == Tail(q)

\* lines 111-126: pop the top; return the path at the goal, else get the neighbors
a_star_pop(s, g) ==
    LET cur  == Head(s.openSet)
        rest == PopTop(s.openSet)
        seen == Append(s.popped, <<s.heap[cur].x, s.heap[cur].y>>)
    IN  IF IsGoal(s.heap[cur], s.heap[2])
        THEN [s EXCEPT !.pc = "done", !.current = cur, !.openSet = rest,
                       !.popped = seen,
                       !.path = reconstruct_path(s.heap, cur),
                       !.deleted = Cleanup(s.allNodes)]
        ELSE LET fresh == get_neighbors(s.heap[cur], g)
                 ptrs  == [i \in 1..Len(fresh) |-> Len(s.heap) + i]
             IN  [s EXCEPT !.pc = IF fresh = <<>> THEN "loop" ELSE "neighbors",
                           !.current = cur, !.openSet = rest, !.popped = seen,
                           !.heap = s.heap \o fresh,
                           !.cellsRead = s.cellsRead \cup ReadAround(s.heap[cur], g),
                           !.neighbors = ptrs]

\* the for loop of line 127 not moving on to the next neighbor
AdvanceForgotten(ns) == ns

\* the for loop of line 127: the neighbors left after this one
Advance(ns) == Tail(ns)

\* the history of line 129: t with the tentative_g v noted for coordinate c
NoteTentative(t, c, v) ==
    [d \in DOMAIN t \cup {c} |->
        IF d = c THEN (IF c \in DOMAIN t /\ t[c] < v THEN t[c] ELSE v) ELSE t[d]]

\* lines 127-142, one round of the for loop; pos is the place the neighbor's
\* address takes among the queued ones
a_star_neighbor(s, pos) ==
    LET nb == Head(s.neighbors)
        rest == Advance(s.neighbors)
        tentative_g == s.heap[s.current].g + 1
        next == IF rest = <<>> THEN "loop" ELSE "neighbors"
        noted == NoteTentative(s.tentative, <<s.heap[nb].x, s.heap[nb].y>>, tentative_g)
    IN  IF Better(s.heap, s.allNodes, nb, tentative_g)
        THEN LET hh == heuristic(s.heap[nb], s.heap[2])
                 h2 == [s.heap EXCEPT ![nb] = [@ EXCEPT !.g = tentative_g, !.h = hh,
                                                        !.f = tentative_g + hh,
                                                        !.parent = s.current]]
             IN  [s EXCEPT !.pc = next, !.neighbors = rest, !.heap = h2,
                           !.tentative = noted,
                           !.openSet = InsertAt(s.openSet, pos, nb),
                           !.allNodes = RegistryPut(h2, s.allNodes, nb)]
        ELSE [s EXCEPT !.pc = next, !.neighbors = rest, !.tentative = noted]

\* lines 145-151
a_star_exhausted(s) ==
    [s EXCEPT !.pc = "done", !.path = <<>>, !.deleted = Cleanup(s.allNodes)]

----------------------------------------------------------------------------
(* The state machine *)

State == [pc |-> pc, heap |-> heap, openSet |-> openSet, allNodes |-> allNodes,
          current |-> current, neighbors |-> neighbors, path |-> path,
          deleted |-> deleted, popped |-> popped, tentative |-> tentative,
          cellsRead |-> cellsRead]

Becomes(s) ==
    /\ pc' = s.pc /\ heap' = s.heap /\ openSet' = s.openSet
    /\ allNodes' = s.allNodes /\ current' = s.current
    /\ neighbors' = s.neighbors /\ path' = s.path /\ deleted' = s.deleted
    /\ popped' = s.popped /\ tentative' = s.tentative
    /\ cellsRead' = s.cellsRead
    /\ UNCHANGED <<grid, start, goal>>

Dims == {d \in (1..MaxRows) \X (1..MaxCols) : d[1] * d[2] <= MaxCells}

Grids == UNION {[1..d[1] -> [1..d[2] -> {0, 1}]] : d \in Dims}

\* the cells of g and the positions one step outside it
Positions(g) == ((-1)..Len(g)) \X ((-1)..Len(g[1]))

Cells(g) == (0..(Len(g) - 1)) \X (0..(Len(g[1]) - 1))

\* start and two Nodes, then at most four Nodes for each expanded coordinate
\* (start and every cell of the grid)
HeapCap(g) == 2 + Len(directions) * (Len(g) * Len(g[1]) + 1)

Init ==
    /\ grid \in Grids
    /\ start \in Positions(grid)
    /\ goal \in Positions(grid)
    /\ pc = "start"
    /\ heap = <<>>
    /\ openSet = <<>>
    /\ allNodes = {}
    /\ current = 0
    /\ neighbors = <<>>
    /\ path = <<>>
    /\ deleted = <<>>
    /\ popped = <<>>
    /\ tentative = [c \in {} |-> 0]
    /\ cellsRead = {}

Begin ==
    /\ pc = "start"
    /\ Becomes(a_star_begin(start, goal))

PopGoal ==
    /\ pc = "loop" /\ openSet # <<>>
    /\ IsGoal(heap[Head(openSet)], heap[2])
    /\ Becomes(a_star_pop(State, grid))

\* The guard on the heap size bounds the model when a definition is changed
\* so that the loop no longer ends; HeapCap is never reached otherwise
\* (CapNeverBinds).
PopExpand ==
    /\ pc = "loop" /\ openSet # <<>>
    /\ ~IsGoal(heap[Head(openSet)], heap[2])
    /\ Len(heap) + Len(directions) <= HeapCap(grid)
    /\ Becomes(a_star_pop(State, grid))

Neighbor ==
    /\ pc = "neighbors"
    /\ \E pos \in 1..(Len(openSet) + 1) : Becomes(a_star_neighbor(State, pos))

Exhausted ==
    /\ pc = "loop" /\ openSet = <<>>
    /\ Becomes(a_star_exhausted(State))

Next == Begin \/ PopGoal \/ PopExpand \/ Neighbor \/ Exhausted

Spec == Init /\ [][Next]_vars

\* The calls with start and goal inside the grid
InitInside == Init /\ start \in Cells(grid) /\ goal \in Cells(grid)

\* a_star is a sequential function: it keeps running until it returns
FairSpec == InitInside /\ [][Next]_vars /\ WF_vars(Next)

\* The three calls worked out in the specification's testable properties
Scenarios ==
    { [grid |-> << <<0, 0, 0>>, <<0, 1, 0>>, <<0, 0, 0>> >>,
       start |-> <<0, 0>>, goal |-> <<2, 2>>],
      [grid |-> << <<0, 1>>, <<1, 0>> >>, start |-> <<0, 0>>, goal |-> <<1, 1>>],
      [grid |-> << <<0>> >>, start |-> <<0, 0>>, goal |-> <<0, 0>>] }

InitScenarios ==
    /\ \E sc \in Scenarios : grid = sc.grid /\ start = sc.start /\ goal = sc.goal
    /\ pc = "start"
    /\ heap = <<>>
    /\ openSet = <<>>
    /\ allNodes = {}
    /\ current = 0
    /\ neighbors = <<>>
    /\ path = <<>>
    /\ deleted = <<>>
    /\ popped = <<>>
    /\ tentative = [c \in {} |-> 0]
    /\ cellsRead = {}

SpecScenarios == InitScenarios /\ [][Next]_vars

\* get_neighbors called by itself, on a Node at start and a grid of up to
\* MaxSide x MaxSide cells
InitNeighbors ==
    /\ grid \in UNION {[1..r -> [1..c -> {0, 1}]] : r \in 1..MaxSide, c \in 1..MaxSide}
    /\ start \in Positions(grid)
    /\ goal = start
    /\ pc = "get_neighbors"
    /\ heap = <<Node(start[1], start[2])>>
    /\ openSet = <<>>
    /\ allNodes = {}
    /\ current = 1
    /\ neighbors = <<>>
    /\ path = <<>>
    /\ deleted = <<>>
    /\ popped = <<>>
    /\ tentative = [c \in {} |-> 0]
    /\ cellsRead = {}

\* lines 47-72: the returned vector holds the Nodes just allocated
CallGetNeighbors ==
    /\ pc = "get_neighbors"
    /\ LET fresh == get_neighbors(heap[current], grid)
       IN  /\ heap' = heap \o fresh
           /\ neighbors' = [i \in 1..Len(fresh) |-> Len(heap) + i]
    /\ cellsRead' = cellsRead \cup ReadAround(heap[current], grid)
    /\ pc' = "got_neighbors"
    /\ UNCHANGED <<grid, start, goal, openSet, allNodes, current, path, deleted,
                   popped, tentative>>

SpecNeighbors == InitNeighbors /\ [][CallGetNeighbors]_vars

\* the guard of PopExpand on the heap size never stops a pop
CapNeverBinds ==
    (pc = "loop" /\ openSet # <<>>) => Len(heap) + Len(directions) <= HeapCap(grid)

\* the shape of the state
TypeOK ==
    /\ pc \in {"start", "loop", "neighbors", "done", "get_neighbors", "got_neighbors"}
    /\ openSet \in Seq(1..Len(heap))
    /\ neighbors \in Seq(1..Len(heap))
    /\ current \in 0..Len(heap)
    /\ \A e \in allNodes : e.key \in 1..Len(heap) /\ e.val \in 1..Len(heap)
    /\ \A i \in 1..Len(heap) : heap[i].parent \in 0..Len(heap)

----------------------------------------------------------------------------
(* The oracle: breadth-first search over the grid, written from the grid   *)
(* alone (it uses none of the operators above).                            *)

InBounds(g, c) == c[1] >= 0 /\ c[1] < Len(g) /\ c[2] >= 0 /\ c[2] < Len(g[1])

Free(g, c) == InBounds(g, c) /\ g[c[1] + 1][c[2] + 1] = 0

Adjacent(c, d) == Abs(c[1] - d[1]) + Abs(c[2] - d[2]) = 1

\* the cells one orthogonal step from c that are in bounds and hold 0
StepsFrom(g, c) == {d \in Cells(g) : Adjacent(c, d) /\ Free(g, d)}

\* the number of steps of a shortest route to target, -1 when there is none
RECURSIVE Bfs(_, _, _, _, _)
Bfs(g, frontier, visited, target, d) ==
    IF target \in frontier THEN d
    ELSE LET next == UNION {StepsFrom(g, c) : c \in frontier} \ visited
         IN  IF next = {} THEN -1
             ELSE Bfs(g, next, visited \cup next, target, d + 1)

ShortestSteps(g, s, t) == Bfs(g, {s}, {s}, t, 0)

\* t can be reached from s by orthogonal steps, each onto a cell that is in
\* bounds and holds 0
Reachable(g, s, t) == ShortestSteps(g, s, t) >= 0

Returned == pc = "done"

----------------------------------------------------------------------------
(* The claims *)

\* C1: for in-bounds walkable start and goal with goal reachable from start,
\* the returned path has as many steps (its length minus one) as a shortest
\* route found by breadth-first search.
C1_ShortestPath ==
    (Returned /\ Free(grid, start) /\ Free(grid, goal) /\ Reachable(grid, start, goal))
        => Len(path) - 1 = ShortestSteps(grid, start, goal)

C3_EmptyOrComplete ==
    /\ Returned => (path = <<>> \/ (path[1] = start /\ path[Len(path)] = goal))
    /\ ~Returned => path = <<>>

C3_Witness == Returned /\ Len(path) >= 3 /\ start # goal

\* C4: when goal is reachable from start, the result is not empty (the empty
\* sequence is returned only when there is no route).
C4_ReachableFound ==
    (Returned /\ Reachable(grid, start, goal)) => path # <<>>

C4_Witness ==
    Returned /\ Reachable(grid, start, goal) /\ Len(path) >= 4 /\ Len(popped) >= 5

\* C5: when goal is not reachable from start and differs from it, a_star
\* empties the open set and returns the empty sequence.
C5_UnreachableEmpty ==
    (Returned /\ start # goal /\ ~Reachable(grid, start, goal))
        => (path = <<>> /\ openSet = <<>>)

\* a walkable goal cut off from a walkable start, after some cells were expanded
C5_Witness ==
    /\ Returned /\ start # goal /\ ~Reachable(grid, start, goal)
    /\ Free(grid, start) /\ Free(grid, goal) /\ Len(popped) >= 2

\* C6: when start equals goal the result is exactly <<start>>: the first pop
\* is the goal, with g = 0, and no neighbor was generated.
C6_StartIsGoal ==
    (Returned /\ start = goal) =>
        /\ path = <<start>>
        /\ popped = <<start>>
        /\ heap[current].g = 0
        /\ Len(heap) = 2

C6_Witness == Returned /\ start = goal /\ Free(grid, start)

\* C7: no returned path holds the same coordinate twice.
C7_NoRevisit ==
    Returned => \A i, j \in 1..Len(path) : i # j => path[i] # path[j]

C7_Witness == Returned /\ Len(path) >= 5

\* C8: a_star terminates on every grid, start and goal.
C8_Terminates == <>Returned

\* the search returned after expanding five coordinates or more
C8_Witness == Returned /\ Len(popped) >= 6

\* The run of a_star in which every new Node lies above all queued ones (an
\* allocator that hands out ascending addresses)
RECURSIVE RunAscending(_, _)
RunAscending(s, g) ==
    IF s.pc = "done" THEN s
    ELSE IF s.pc = "neighbors"
         THEN RunAscending(a_star_neighbor(s, Len(s.openSet) + 1), g)
         ELSE IF s.openSet = <<>> THEN a_star_exhausted(s)
              ELSE RunAscending(a_star_pop(s, g), g)

\* C9: a_star is deterministic: whatever addresses the Nodes get, every run
\* on the same grid, start and goal pops the same coordinates in the same
\* order and returns the same path (here: those of the run with ascending
\* addresses).
C9_Deterministic ==
    Returned =>
        LET ref == RunAscending(a_star_begin(start, goal), grid)
        IN  path = ref.path /\ popped = ref.popped

\* C10: on the grid [[0,0,0],[0,1,0],[0,0,0]] with start (0,0) and goal (2,2)
\* the result has exactly 5 coordinates, from (0,0) to (2,2), none of them (1,1).
C10_RingScenario ==
    (/\ Returned
     /\ grid = << <<0, 0, 0>>, <<0, 1, 0>>, <<0, 0, 0>> >>
     /\ start = <<0, 0>> /\ goal = <<2, 2>>)
        => /\ Len(path) = 5
           /\ path[1] = <<0, 0>> /\ path[5] = <<2, 2>>
           /\ <<1, 1>> \notin Range(path)

C10_Witness ==
    /\ Returned
    /\ grid = << <<0, 0, 0>>, <<0, 1, 0>>, <<0, 0, 0>> >>
    /\ start = <<0, 0>> /\ goal = <<2, 2>>
    /\ path # <<>>

\* C11: at every round of the main loop the node removed from the open set
\* (its top) has the lowest f of all nodes in the open set: no queued node has
\* a strictly smaller f.
C11_PopsLowestF ==
    (pc = "loop" /\ openSet # <<>>) =>
        \A n \in Range(openSet) : heap[Head(openSet)].f <= heap[n].f

\* the registry's Node for coordinate c (the mapped value of its entry)
RegistryNode(c) == (CHOOSE e \in allNodes : <<heap[e.key].x, heap[e.key].y>> = c).val

Registered == {<<heap[e.key].x, heap[e.key].y>> : e \in allNodes}

\* C12: a neighbor coordinate that is in the registry with a g above
\* tentative_g = current.g + 1 gets g = tentative_g and predecessor = current;
\* so in every state the registry's g of a coordinate is the lowest
\* tentative_g computed for that coordinate so far (0 for start).
C12_RegistryKeepsLowestG ==
    \A c \in Registered \cap DOMAIN tentative :
        heap[RegistryNode(c)].g <= tentative[c]

\* C13: the start Node is put in the open set and in the registry with
\* g = 0, h = heuristic(start, goal) (the Manhattan distance from start to
\* goal), f = g + h and no predecessor.
C13_StartNode ==
    (pc = "loop" /\ popped = <<>>) =>
        /\ openSet = <<1>>
        /\ allNodes = {[key |-> 1, val |-> 1]}
        /\ <<heap[1].x, heap[1].y>> = start
        /\ heap[1].g = 0
        /\ heap[1].h = Abs(start[1] - goal[1]) + Abs(start[2] - goal[2])
        /\ heap[1].f = heap[1].g + heap[1].h
        /\ heap[1].parent = 0

\* the coordinates of the Nodes a sequence of Node*s points to
CoordsOf(ptrs) == [i \in 1..Len(ptrs) |-> <<heap[ptrs[i]].x, heap[ptrs[i]].y>>]

\* C14: for every coordinate (x, y) and grid, get_neighbors returns exactly
\* the coordinates among (x-1,y), (x+1,y), (x,y-1), (x,y+1) that are in bounds
\* and hold 0, in that order (up, down, left, right), none twice, each in a
\* Node of its own, and leaves the input Node as it was.
C14_GetNeighbors ==
    pc = "got_neighbors" =>
        LET x == start[1]
            y == start[2]
            around == << <<x - 1, y>>, <<x + 1, y>>, <<x, y - 1>>, <<x, y + 1>> >>
            got == CoordsOf(neighbors)
        IN  /\ got = SelectSeq(around, LAMBDA c : Free(grid, c))
            /\ \A i, j \in 1..Len(got) : i # j => got[i] # got[j]
            /\ neighbors = [i \in 1..Len(got) |-> 1 + i]
            /\ heap[1] = Node(x, y)

\* all four neighbors are returned
C14_Witness == pc = "got_neighbors" /\ Len(neighbors) = 4

\* how many times Node* n was passed to delete
TimesDeleted(n) == Cardinality({k \in 1..Len(deleted) : deleted[k] = n})

\* C15: when a_star returns, every Node allocated during the call (the start
\* Node, the goal Node and every Node made by get_neighbors, registered or
\* not) has been freed exactly once.
C15_AllFreedOnce ==
    Returned => \A n \in 1..Len(heap) : TimesDeleted(n) = 1

NoRepeat(s) == \A i, j \in 1..Len(s) : i # j => s[i] # s[j]

\* the pushes so far: every pushed Node is still queued or was popped
Pushes == Len(popped) + Len(openSet)

RegistryNodes == {e.val : e \in allNodes}

\* C17: in every state every registry Node other than the start Node has a
\* predecessor that is in the registry and orthogonally adjacent to it, with
\* g = predecessor.g + 1 and f = g + the Manhattan distance to goal; and the
\* predecessor links of any registry Node lead to the start Node in exactly g
\* steps.
C17_RegistryChains ==
    \A n \in RegistryNodes :
        /\ n # 1 =>
            LET p == heap[n].parent
            IN  /\ p \in RegistryNodes
                /\ Adjacent(<<heap[n].x, heap[n].y>>, <<heap[p].x, heap[p].y>>)
                /\ heap[n].g = heap[p].g + 1
                /\ heap[n].f = heap[n].g + Abs(heap[n].x - goal[1])
                                         + Abs(heap[n].y - goal[2])
        /\ LET chain == WalkParents(heap, n)
           IN  /\ Len(chain) = heap[n].g + 1
               /\ chain[Len(chain)] = start
               /\ (n = 1) = (heap[n].parent = 0)

\* the registry holds a Node four steps from start
C17_Witness == \E n \in RegistryNodes : heap[n].g >= 4

\* what C18 says a_star does for a start that is blocked or outside the grid
StartNotTested ==
    (Returned /\ ~Free(grid, start) /\ start # goal /\ Reachable(grid, start, goal))
        => (path # <<>> /\ path[1] = start /\ path[Len(path)] = goal)

\* C18 (as stated): a_star never reads the grid cell of start; for a start
\* on a blocked cell, or outside the grid next to a walkable cell, and a
\* different goal reachable from start's walkable neighbors, it returns a
\* non-empty path whose first element is start.
C18_NeverReadsStart == start \notin cellsRead /\ StartNotTested

\* C18 (amended): a_star reads no cell before it expands start and never
\* tests start's cell for start itself: the cell is read only as a neighbor
\* candidate, once a coordinate next to start has been popped, and never when
\* start is outside the grid (every position read is in bounds); for a start
\* on a blocked cell, or outside the grid, and a different goal reachable
\* from start's walkable neighbors, a_star returns a non-empty path from
\* start to goal.
C18_StartNotTested ==
    /\ Len(popped) <= 1 => start \notin cellsRead
    /\ start \in cellsRead => \E i \in 1..Len(popped) : Adjacent(popped[i], start)
    /\ cellsRead \subseteq Cells(grid)
    /\ StartNotTested

\* a path was returned from a blocked start whose cell was read on the way
C18_Witness ==
    /\ Returned /\ InBounds(grid, start) /\ ~Free(grid, start) /\ start \in cellsRead
    /\ Len(path) >= 3

\* C19: when goal is on a blocked cell or outside the grid and differs from
\* start, a_star returns the empty sequence, no Node for goal's coordinate
\* ever being made by get_neighbors; when goal equals start the result is
\* <<start>>, blocked or out of bounds as that position may be.
C19_GoalNotWalkable ==
    ~Free(grid, goal) =>
        /\ \A n \in 3..Len(heap) : <<heap[n].x, heap[n].y>> # goal
        /\ (Returned /\ goal # start) => path = <<>>
        /\ (Returned /\ goal = start) => path = <<start>>

\* the search ended empty after the blocked cell of goal was looked at
C19_Witness ==
    /\ Returned /\ goal # start /\ InBounds(grid, goal) /\ ~Free(grid, goal)
    /\ goal \in cellsRead /\ Len(popped) >= 3 /\ path = <<>>

====
